---- MODULE Spec2Model ----
(***************************************************************************)
(* The spaced-repetition scheduling and progress-tracking engine of        *)
(* Nippon.py: SRSCard, SRSSystem.review_card and ProgressManager, with the *)
(* kana test of KanaModule and the constructor of JapaneseApp.             *)
(*                                                                         *)
(* Representation.                                                         *)
(*   - The clock (datetime.now()) is an ordinal day number `today`; one    *)
(*     call of an engine method reads one value of it.                     *)
(*   - strftime('%Y-%m-%d') yields a fixed-width, zero-padded string; it   *)
(*     is modelled as the tuple <<year, month, day>> of its three fields,  *)
(*     and Python's `<=` on two such strings as the lexicographic order    *)
(*     of the fields.  None is the empty tuple.                            *)
(*   - ease is a float in the source; it is held in hundredths (2.5 is     *)
(*     250).  All the increments of review_card are whole hundredths, and  *)
(*     the doubles of the source are these values up to rounding error     *)
(*     (2.5 - 0.14 - ... is 1.8999999999999997 for 1.9).  Where the exact  *)
(*     product interval * ease is a whole number, int() of the double      *)
(*     product can be one less than the value computed here (140 * 1.9);   *)
(*     this first happens at the seventh review of a card, with intervals  *)
(*     of 100 days and more.                                               *)
(*   - a dict is a function on the set of its keys; a list returned by a   *)
(*     method that cannot repeat a key is the set of its elements.         *)
(*   - the file holds a JSON document.  An object is the function of its   *)
(*     members, with the values as JSON writes them: a float as its        *)
(*     decimal digits, True as "true", None as null.  A text that          *)
(*     json.load rejects is [text |-> ...]; null where Python expects a    *)
(*     dict is [scalar |-> "null"], and null where it expects a list or a  *)
(*     string is <<"null">>.                                               *)
(*   - open(filepath, 'w') and json.dump succeed or raise as `disk` says:  *)
(*     "denied" makes open raise (for reading too) and leaves the file as  *)
(*     it was, "full" makes json.dump raise after open has truncated the   *)
(*     file.  A document imported by import_from_file is always an object  *)
(*     or a text that cannot be parsed.                                    *)
(*   - the kana test is the record `session`: the attributes of the        *)
(*     KanaModule and the state of the widgets that decide which handler   *)
(*     the user can reach (the packed input frame, the choice buttons and  *)
(*     the Next button).  A kana is named by its reading, and an answer is *)
(*     the text of the entry as strip().lower() leaves it.                 *)
(***************************************************************************)
EXTENDS Integers, Sequences, FiniteSets, TLC

VARIABLES
    today,      \* the clock: the ordinal of the current day
    data,       \* ProgressManager.data
    file,       \* the file at ProgressManager.filepath
    content,    \* the static item keys of each category (HIRAGANA, VOCABULARY, ...)
    card,       \* the SRSCard object last handed to the caller
    calls,      \* number of review_card calls made so far
    disk,       \* what open and json.dump meet: "ok", "denied" or "full"
    session,    \* the KanaModule: its attributes and the state of its widgets
    ret         \* the last call: its name, its arguments and what it returned

vars == <<today, data, file, content, card, calls, disk, session, ret>>

-----------------------------------------------------------------------------
(* Bounds of the model *)

MaxDay == 2          \* the clock runs over days 0..MaxDay
MaxCalls == 2        \* review_card calls in one run of the store
MaxStreak == 6       \* largest streak of a store loaded at construction
MaxStat == 1         \* increment_stat is not called on a counter at or above this value
MaxChain == 9        \* review_card calls on one card in a row
MaxInterval == 7     \* largest interval of an input card
MaxReps == 3         \* largest repetitions of an input card
MaxWrong == 1        \* largest wrong_count of an input card
EaseSpan == 14       \* input eases are MIN_EASE .. MIN_EASE + EaseSpan, and the default
MaxMissing == 2      \* top-level keys that a loaded document can lack
MaxAmount == 2       \* amounts passed to increment_stat are 1..MaxAmount
MaxDueDay == 7       \* the clock of the due-date runs reaches this day
MaxGrow == 4         \* review_card calls in a run that grows the interval of a stored card
MaxAsked == 3        \* answers are checked while asked and total_reviews are below this value

-----------------------------------------------------------------------------
(* Dates *)

None == <<>>

\* The date of day 0 of the clock: the run crosses a month and a year end.
Epoch == <<2024, 12, 30>>

IsLeap(y) == (y % 4 = 0 /\ y % 100 # 0) \/ y % 400 = 0

DaysInMonth(y, m) ==
    IF m = 2 THEN (IF IsLeap(y) THEN 29 ELSE 28)
    ELSE IF m \in {4, 6, 9, 11} THEN 30 ELSE 31

NextDate(d) ==
    IF d[3] < DaysInMonth(d[1], d[2]) THEN <<d[1], d[2], d[3] + 1>>
    ELSE IF d[2] < 12 THEN <<d[1], d[2] + 1, 1>>
    ELSE <<d[1] + 1, 1, 1>>

PrevDate(d) ==
    IF d[3] > 1 THEN <<d[1], d[2], d[3] - 1>>
    ELSE IF d[2] > 1 THEN <<d[1], d[2] - 1, DaysInMonth(d[1], d[2] - 1)>>
    ELSE <<d[1] - 1, 12, 31>>

DaysInYear(y) == IF IsLeap(y) THEN 366 ELSE 365

\* d + timedelta(days=n), a year or a month at a time
RECURSIVE AddDays(_, _)
AddDays(d, n) ==
    IF n = 0 THEN d
    ELSE IF n < 0 THEN AddDays(PrevDate(d), n + 1)
    ELSE IF d[2] = 1 /\ d[3] = 1 /\ n >= DaysInYear(d[1])
         THEN AddDays(<<d[1] + 1, 1, 1>>, n - DaysInYear(d[1]))
    ELSE IF d[3] + n <= DaysInMonth(d[1], d[2]) THEN <<d[1], d[2], d[3] + n>>
    ELSE AddDays(NextDate(<<d[1], d[2], DaysInMonth(d[1], d[2])>>),
                 n - (DaysInMonth(d[1], d[2]) - d[3]) - 1)

\* datetime(ordinal n).strftime('%Y-%m-%d')
strftime(n) == AddDays(Epoch, n)

\* s <= t on two formatted dates: string comparison, field by field
StrLeq(s, t) ==
    \/ s[1] < t[1]
    \/ s[1] = t[1] /\ s[2] < t[2]
    \/ s[1] = t[1] /\ s[2] = t[2] /\ s[3] <= t[3]

-----------------------------------------------------------------------------
(* SRSCard *)

DEFAULT_EASE == 250
DEFAULT_INTERVAL == 1
MIN_EASE == 130
PASS_QUALITY == 3
SECOND_INTERVAL == 6

SRSCard ==
    [ease |-> DEFAULT_EASE, interval |-> DEFAULT_INTERVAL, repetitions |-> 0,
     last_review |-> None, next_review |-> None, wrong_count |-> 0]

Max(a, b) == IF a >= b THEN a ELSE b

\* int(x / 100) for x in hundredths: Python's int() truncates toward zero
IntOfHundredths(x) == IF x >= 0 THEN x \div 100 ELSE -((-x) \div 100)

-----------------------------------------------------------------------------
(* SRSSystem.review_card *)

\* The mutants of review_card used to test the formulas below.
review_card_ease_on_fail(c, quality, now) ==
    LET lapsed == quality < PASS_QUALITY
        interval == IF lapsed THEN 1
                    ELSE IF c.repetitions = 0 THEN 1
                    ELSE IF c.repetitions = 1 THEN SECOND_INTERVAL
                    ELSE IntOfHundredths(c.interval * c.ease)
    IN  [ease |-> Max(MIN_EASE, c.ease + (10 - (5 - quality) * (8 + (5 - quality) * 2))),
         interval |-> interval,
         repetitions |-> IF lapsed THEN 0 ELSE c.repetitions + 1,
         last_review |-> strftime(now),
         next_review |-> strftime(now + interval),
         wrong_count |-> IF lapsed THEN c.wrong_count + 1 ELSE c.wrong_count]

review_card_new_ease(c, quality, now) ==
    LET lapsed == quality < PASS_QUALITY
        ease == IF lapsed THEN c.ease
                ELSE Max(MIN_EASE, c.ease + (10 - (5 - quality) * (8 + (5 - quality) * 2)))
        interval == IF lapsed THEN 1
                    ELSE IF c.repetitions = 0 THEN 1
                    ELSE IF c.repetitions = 1 THEN SECOND_INTERVAL
                    ELSE IntOfHundredths(c.interval * ease)
    IN  [ease |-> ease,
         interval |-> interval,
         repetitions |-> IF lapsed THEN 0 ELSE c.repetitions + 1,
         last_review |-> strftime(now),
         next_review |-> strftime(now + interval),
         wrong_count |-> IF lapsed THEN c.wrong_count + 1 ELSE c.wrong_count]

review_card_linear_ease(c, quality, now) ==
    LET lapsed == quality < PASS_QUALITY
        interval == IF lapsed THEN 1
                    ELSE IF c.repetitions = 0 THEN 1
                    ELSE IF c.repetitions = 1 THEN SECOND_INTERVAL
                    ELSE IntOfHundredths(c.interval * c.ease)
    IN  [ease |-> IF lapsed THEN c.ease
                  ELSE Max(MIN_EASE, c.ease + (10 - (5 - quality) * 8)),
         interval |-> interval,
         repetitions |-> IF lapsed THEN 0 ELSE c.repetitions + 1,
         last_review |-> strftime(now),
         next_review |-> strftime(now + interval),
         wrong_count |-> IF lapsed THEN c.wrong_count + 1 ELSE c.wrong_count]

review_card_no_floor(c, quality, now) ==
    LET lapsed == quality < PASS_QUALITY
        interval == IF lapsed THEN 1
                    ELSE IF c.repetitions = 0 THEN 1
                    ELSE IF c.repetitions = 1 THEN SECOND_INTERVAL
                    ELSE IntOfHundredths(c.interval * c.ease)
    IN  [ease |-> IF lapsed THEN c.ease
                  ELSE c.ease + (10 - (5 - quality) * (8 + (5 - quality) * 2)),
         interval |-> interval,
         repetitions |-> IF lapsed THEN 0 ELSE c.repetitions + 1,
         last_review |-> strftime(now),
         next_review |-> strftime(now + interval),
         wrong_count |-> IF lapsed THEN c.wrong_count + 1 ELSE c.wrong_count]

review_card_lapse_zero(c, quality, now) ==
    LET lapsed == quality < PASS_QUALITY
        interval == IF lapsed THEN 0
                    ELSE IF c.repetitions = 0 THEN 1
                    ELSE IF c.repetitions = 1 THEN SECOND_INTERVAL
                    ELSE IntOfHundredths(c.interval * c.ease)
    IN  [ease |-> IF lapsed THEN c.ease
                  ELSE Max(MIN_EASE, c.ease + (10 - (5 - quality) * (8 + (5 - quality) * 2))),
         interval |-> interval,
         repetitions |-> IF lapsed THEN 0 ELSE c.repetitions + 1,
         last_review |-> strftime(now),
         next_review |-> strftime(now + interval),
         wrong_count |-> IF lapsed THEN c.wrong_count + 1 ELSE c.wrong_count]

review_card_second_twice(c, quality, now) ==
    LET lapsed == quality < PASS_QUALITY
        interval == IF lapsed THEN 1
                    ELSE IF c.repetitions = 0 THEN 1
                    ELSE IF c.repetitions \in {1, 2} THEN SECOND_INTERVAL
                    ELSE IntOfHundredths(c.interval * c.ease)
    IN  [ease |-> IF lapsed THEN c.ease
                  ELSE Max(MIN_EASE, c.ease + (10 - (5 - quality) * (8 + (5 - quality) * 2))),
         interval |-> interval,
         repetitions |-> IF lapsed THEN 0 ELSE c.repetitions + 1,
         last_review |-> strftime(now),
         next_review |-> strftime(now + interval),
         wrong_count |-> IF lapsed THEN c.wrong_count + 1 ELSE c.wrong_count]

review_card_old_interval(c, quality, now) ==
    LET lapsed == quality < PASS_QUALITY
        interval == IF lapsed THEN 1
                    ELSE IF c.repetitions = 0 THEN 1
                    ELSE IF c.repetitions = 1 THEN SECOND_INTERVAL
                    ELSE IntOfHundredths(c.interval * c.ease)
    IN  [ease |-> IF lapsed THEN c.ease
                  ELSE Max(MIN_EASE, c.ease + (10 - (5 - quality) * (8 + (5 - quality) * 2))),
         interval |-> interval,
         repetitions |-> IF lapsed THEN 0 ELSE c.repetitions + 1,
         last_review |-> strftime(now),
         next_review |-> strftime(now + c.interval),
         wrong_count |-> IF lapsed THEN c.wrong_count + 1 ELSE c.wrong_count]

\* review_card(card, quality) run on day `now`: the card it returns.  The
\* interval is computed from the repetitions and the ease held on entry, the
\* ease is updated afterwards, and a failed review leaves the ease alone.
review_card(c, quality, now) ==
    LET lapsed == quality < PASS_QUALITY
        interval == IF lapsed THEN 1
                    ELSE IF c.repetitions = 0 THEN 1
                    ELSE IF c.repetitions = 1 THEN SECOND_INTERVAL
                    ELSE IntOfHundredths(c.interval * c.ease)
    IN  [ease |-> IF lapsed THEN c.ease
                  ELSE Max(MIN_EASE, c.ease + (10 - (5 - quality) * (8 + (5 - quality) * 2))),
         interval |-> interval,
         repetitions |-> IF lapsed THEN 0 ELSE c.repetitions + 1,
         last_review |-> strftime(now),
         next_review |-> strftime(now + interval),
         wrong_count |-> IF lapsed THEN c.wrong_count + 1 ELSE c.wrong_count]

\* What a call of review_card raises: the method has no check of quality and
\* no statement that can fail on an int, so it raises nothing.
review_card_raises(c, quality) == "nothing"

-----------------------------------------------------------------------------
(* ProgressManager *)

CATEGORIES == {"kana", "vocab", "grammar", "kanji"}

EmptyDict == [k \in {} |-> SRSCard]

\* _default_structure(), built on day `now`
default_structure(now) ==
    [streak |-> 0,
     last_date |-> strftime(now),
     achievements |-> <<>>,
     settings |-> [theme |-> "Sakura Bliss", layout |-> "Desktop", sound |-> TRUE,
                   test_type |-> "typing", srs_interval |-> 1],
     kana |-> EmptyDict,
     vocab |-> EmptyDict,
     grammar |-> EmptyDict,
     kanji |-> EmptyDict,
     stats |-> [total_reviews |-> 0, reviews_today |-> 0,
                correct_streak |-> 0, max_streak |-> 0]]

-----------------------------------------------------------------------------
(* JSON documents *)

JsonNull == <<"null">>
JsonScalar == [scalar |-> "null"]
Unparseable == [text |-> "truncated"]

isinstance_dict(v) == "scalar" \notin DOMAIN v
isinstance_list(v) == v # JsonNull

\* json.dump of a float, a bool and an Optional[str], and json.load of each
dump_float(h) == <<h \div 100, h % 100>>
load_float(j) == 100 * j[1] + j[2]
dump_bool(b) == IF b THEN "true" ELSE "false"
load_bool(j) == j = "true"
dump_optional(v) == IF v = None THEN JsonNull ELSE v
load_optional(j) == IF j = JsonNull THEN None ELSE j

dump_card(c) ==
    [c EXCEPT !.ease = dump_float(@),
              !.last_review = dump_optional(@),
              !.next_review = dump_optional(@)]

load_card(j) ==
    [j EXCEPT !.ease = load_float(@),
              !.last_review = load_optional(@),
              !.next_review = load_optional(@)]

\* json.dump(self.data): the document written for the store d
json_dump(d) ==
    [k \in DOMAIN d |->
        IF k \in CATEGORIES /\ isinstance_dict(d[k])
        THEN [key \in DOMAIN d[k] |-> dump_card(d[k][key])]
        ELSE IF k = "settings" /\ isinstance_dict(d[k])
        THEN [x \in DOMAIN d[k] |-> IF x = "sound" THEN dump_bool(d[k][x]) ELSE d[k][x]]
        ELSE d[k]]

\* json.load(f): the dict read from an object document
json_load(doc) ==
    [k \in DOMAIN doc |->
        IF k \in CATEGORIES /\ isinstance_dict(doc[k])
        THEN [key \in DOMAIN doc[k] |-> load_card(doc[k][key])]
        ELSE IF k = "settings" /\ isinstance_dict(doc[k])
        THEN [x \in DOMAIN doc[k] |-> IF x = "sound" THEN load_bool(doc[k][x]) ELSE doc[k][x]]
        ELSE doc[k]]

-----------------------------------------------------------------------------
(* ProgressManager: the file *)

NoFile == [exists |-> FALSE, content |-> [text |-> ""]]

\* save(): the whole of data is dumped to the file; an exception of open or
\* of json.dump is caught and printed
save(d) ==
    CASE disk = "ok" -> [exists |-> TRUE, content |-> json_dump(d)]
      [] disk = "denied" -> file
      [] disk = "full" -> [exists |-> TRUE, content |-> Unparseable]

\* What save() raises to its caller, whatever the disk does.
save_raises(d) == "nothing"

\* The documents that make _load fall back to the defaults: open raises,
\* json.load raises, or _migrate_data raises on a value that is no dict.
load_fails(f) ==
    \/ disk = "denied"
    \/ "text" \in DOMAIN f.content
    \/ ~isinstance_dict(f.content)

\* d.update of the keys that d lacks, as the loops of _migrate_data do
fill(d, defaults) ==
    [k \in DOMAIN d \cup DOMAIN defaults |-> IF k \in DOMAIN d THEN d[k] ELSE defaults[k]]

\* The mutant of _migrate_data: the default settings replace the present ones.
migrate_data_overwrite(d, now) ==
    LET default == default_structure(now)
        d1 == fill(d, default)
    IN  [d1 EXCEPT
            !.settings = default.settings,
            !.stats = IF isinstance_dict(@) THEN fill(@, default.stats) ELSE default.stats,
            !.achievements = IF isinstance_list(@) THEN @ ELSE default.achievements,
            !.kana = IF isinstance_dict(@) THEN @ ELSE EmptyDict,
            !.vocab = IF isinstance_dict(@) THEN @ ELSE EmptyDict,
            !.grammar = IF isinstance_dict(@) THEN @ ELSE EmptyDict,
            !.kanji = IF isinstance_dict(@) THEN @ ELSE EmptyDict]

\* _migrate_data(data) on day `now`
migrate_data(d, now) ==
    LET default == default_structure(now)
        d1 == fill(d, default)
    IN  [d1 EXCEPT
            !.settings = IF isinstance_dict(@) THEN fill(@, default.settings) ELSE default.settings,
            !.stats = IF isinstance_dict(@) THEN fill(@, default.stats) ELSE default.stats,
            !.achievements = IF isinstance_list(@) THEN @ ELSE default.achievements,
            !.kana = IF isinstance_dict(@) THEN @ ELSE EmptyDict,
            !.vocab = IF isinstance_dict(@) THEN @ ELSE EmptyDict,
            !.grammar = IF isinstance_dict(@) THEN @ ELSE EmptyDict,
            !.kanji = IF isinstance_dict(@) THEN @ ELSE EmptyDict]

\* The mutant of _load: a file that cannot be read gives no store.
load_no_fallback(f, now) ==
    IF ~f.exists THEN default_structure(now)
    ELSE IF load_fails(f) THEN [error |-> "load"]
    ELSE migrate_data(json_load(f.content), now)

\* _load() on day `now`: the store that ProgressManager() starts with
load(f, now) ==
    IF ~f.exists \/ load_fails(f) THEN default_structure(now)
    ELSE migrate_data(json_load(f.content), now)

\* What _load raises to its caller: every exception is caught and printed.
load_raises(f) == "nothing"

\* The mutant of put: the category keeps the written key alone.
put_alone(d, category, key, c) ==
    [d EXCEPT ![category] = (key :> c)]

\* d[category][key] = c
put(d, category, key, c) ==
    [d EXCEPT ![category] = (key :> c) @@ d[category]]

\* The mutant of update_card: the card is stored when the write succeeds.
update_card_rollback(d, category, key, c) ==
    IF disk = "ok" THEN put(d, category, key, c) ELSE d

\* update_card(category, key, card): the store after the call, whatever the
\* save that follows the assignment meets
update_card(d, category, key, c) == put(d, category, key, c)

\* The mutant of get_card: the defaults are stored over a stored card.
get_card_store_overwrite(d, category, key) ==
    put(d, category, key, SRSCard)

\* get_card: the store after the call; a key not yet stored gets the defaults
get_card_store(d, category, key) ==
    IF key \in DOMAIN d[category] THEN d ELSE put(d, category, key, SRSCard)

\* get_card: the card returned, a copy of the stored one
get_card(d, category, key) == get_card_store(d, category, key)[category][key]

\* The mutants of get_due_items: `<` for `<=`, and no branch for new cards.
get_due_items_by_last(d, category, now) ==
    {key \in DOMAIN d[category] :
        IF d[category][key].next_review # None
        THEN StrLeq(d[category][key].last_review, strftime(now))
        ELSE TRUE}

get_due_items_strict(d, category, now) ==
    {key \in DOMAIN d[category] :
        IF d[category][key].next_review # None
        THEN /\ StrLeq(d[category][key].next_review, strftime(now))
             /\ d[category][key].next_review # strftime(now)
        ELSE TRUE}

get_due_items_skip_new(d, category, now) ==
    {key \in DOMAIN d[category] :
        IF d[category][key].next_review # None
        THEN StrLeq(d[category][key].next_review, strftime(now))
        ELSE FALSE}

\* get_due_items(category) on day `now`
get_due_items(d, category, now) ==
    {key \in DOMAIN d[category] :
        IF d[category][key].next_review # None
        THEN StrLeq(d[category][key].next_review, strftime(now))
        ELSE TRUE}

\* d.get(k, default) and d[k] = v of a dict that holds the key or not
get(d, k, default) == IF k \in DOMAIN d THEN d[k] ELSE default

setitem(d, k, v) == [x \in DOMAIN d \cup {k} |-> IF x = k THEN v ELSE d[x]]

\* achievement_id in the list
Held(achievements, id) == \E i \in 1..Len(achievements) : achievements[i] = id

add_achievement_again(d, id) ==
    setitem(d, "achievements", Append(get(d, "achievements", <<>>), id))

\* add_achievement: the store after the call (the list is created when the
\* store has none; a new id is appended and saved)
add_achievement(d, id) ==
    LET achievements == get(d, "achievements", <<>>)
    IN  setitem(d, "achievements",
                IF Held(achievements, id) THEN achievements
                ELSE Append(achievements, id))

WEEK == 7

\* The mutant of update_streak: no early return on the same day.
update_streak_no_guard(d, now) ==
    LET s == IF d.last_date = strftime(now - 1) \/ d.last_date = strftime(now)
             THEN d.streak + 1 ELSE 1
        d1 == [d EXCEPT !.streak = s,
                        !.last_date = strftime(now),
                        !.stats.reviews_today = 0]
    IN  IF s >= WEEK THEN add_achievement(d1, "week_streak") ELSE d1

update_streak_no_restart(d, now) ==
    IF d.last_date = strftime(now) THEN d
    ELSE LET s == IF d.last_date = strftime(now - 1) THEN d.streak + 1 ELSE d.streak
             d1 == [d EXCEPT !.streak = s,
                             !.last_date = strftime(now),
                             !.stats.reviews_today = 0]
         IN  IF s >= WEEK THEN add_achievement(d1, "week_streak") ELSE d1

\* The mutants of update_streak: the day's counter is kept, and no achievement
\* is evaluated.
update_streak_keep_reviews(d, now) ==
    IF d.last_date = strftime(now) THEN d
    ELSE LET s == IF d.last_date = strftime(now - 1) THEN d.streak + 1 ELSE 1
             d1 == [d EXCEPT !.streak = s,
                             !.last_date = strftime(now)]
         IN  IF s >= WEEK THEN add_achievement(d1, "week_streak") ELSE d1

update_streak_no_award(d, now) ==
    IF d.last_date = strftime(now) THEN d
    ELSE LET s == IF d.last_date = strftime(now - 1) THEN d.streak + 1 ELSE 1
         IN  [d EXCEPT !.streak = s,
                       !.last_date = strftime(now),
                       !.stats.reviews_today = 0]

\* update_streak() on day `now`: the store after the call.  The method returns
\* the streak of that store.
update_streak(d, now) ==
    LET last_date == get(d, "last_date", strftime(now))
        d0 == IF "streak" \in DOMAIN d THEN d ELSE setitem(d, "streak", 0)
    IN  IF last_date = strftime(now) THEN d0
        ELSE LET s == IF last_date = strftime(now - 1) THEN d0.streak + 1 ELSE 1
                 d1 == [d0 EXCEPT !.streak = s, !.last_date = strftime(now)]
                 d2 == IF "stats" \in DOMAIN d1 /\ "reviews_today" \in DOMAIN d1.stats
                       THEN [d1 EXCEPT !.stats.reviews_today = 0]
                       ELSE d1
             IN  IF s >= WEEK THEN add_achievement(d2, "week_streak") ELSE d2

EmptyStats == [k \in {} |-> 0]

DefaultStats ==
    [total_reviews |-> 0, reviews_today |-> 0, correct_streak |-> 0, max_streak |-> 0]

\* increment_stat(stat_name, amount): the store after the call (the stats
\* dict is created with its four counters at 0 when the store has none)
increment_stat(d, stat_name, amount) ==
    LET d0 == IF "stats" \in DOMAIN d THEN d ELSE setitem(d, "stats", DefaultStats)
    IN  IF stat_name \in DOMAIN d0.stats
        THEN [d0 EXCEPT !.stats[stat_name] = @ + amount]
        ELSE d0

-----------------------------------------------------------------------------
(* The operations, one action each *)

\* The clock passes midnight once or more between two calls.
AdvanceDay(n) ==
    /\ today + n <= MaxDay
    /\ today' = today + n
    /\ ret' = [op |-> "advance_day"]
    /\ UNCHANGED <<data, file, content, card, calls, disk, session>>

\* The clock passes n days, up to day `last`.
PassDays(n, last) ==
    /\ today + n <= last
    /\ today' = today + n
    /\ ret' = [op |-> "advance_day"]
    /\ UNCHANGED <<data, file, content, card, calls, disk, session>>

\* card = progress.get_card(category, key): a new key is stored, not saved
GetCard(category, key) ==
    /\ data' = get_card_store(data, category, key)
    /\ card' = get_card(data, category, key)
    /\ ret' = [op |-> "get_card", category |-> category, key |-> key,
               stored |-> key \in DOMAIN data[category],
               changed |-> data' # data, wrote |-> FALSE, failed |-> FALSE]
    /\ UNCHANGED <<today, file, content, calls, disk, session>>

\* card = SRSSystem.review_card(card, quality), at most `limit` times
ReviewCard(quality, limit) ==
    /\ calls < limit
    /\ calls' = calls + 1
    /\ card' = review_card(card, quality, today)
    /\ ret' = [op |-> "review_card", quality |-> quality, today |-> today,
               before |-> card, after |-> card',
               raised |-> review_card_raises(card, quality)]
    /\ UNCHANGED <<today, data, file, content, disk, session>>

\* progress.update_card(category, key, card)
UpdateCard(category, key) ==
    /\ data' = update_card(data, category, key, card)
    /\ file' = save(data')
    /\ ret' = [op |-> "update_card", category |-> category, key |-> key,
               changed |-> data' # data,
               wrote |-> TRUE, failed |-> disk # "ok",
               raised |-> save_raises(data')]
    /\ UNCHANGED <<today, content, card, calls, disk, session>>

\* due = progress.get_due_items(category)
GetDueItems(category) ==
    /\ ret' = [op |-> "get_due_items", category |-> category,
               due |-> get_due_items(data, category, today)]
    /\ UNCHANGED <<today, data, file, content, card, calls, disk, session>>

\* streak = progress.update_streak()
UpdateStreak ==
    LET last_date == get(data, "last_date", strftime(today))
        wrote == last_date # strftime(today)
    IN  /\ data' = update_streak(data, today)
        /\ file' = IF wrote THEN save(data') ELSE file
        /\ ret' = [op |-> "update_streak", today |-> today,
                   streak |-> get(data, "streak", 0),
                   last_date |-> last_date,
                   reviews_today |-> get(get(data, "stats", EmptyStats), "reviews_today", 0),
                   achievements |-> get(data, "achievements", <<>>),
                   result |-> data'.streak,
                   changed |-> data' # data,
                   wrote |-> wrote, failed |-> wrote /\ disk # "ok",
                   raised |-> save_raises(data')]
    /\ UNCHANGED <<today, content, card, calls, disk, session>>

\* progress.add_achievement(id): saved when the id is new
AddAchievement(id) ==
    /\ data' = add_achievement(data, id)
    /\ file' = IF data' # data THEN save(data') ELSE file
    /\ ret' = [op |-> "add_achievement", id |-> id, result |-> data' # data,
               changed |-> data' # data,
               wrote |-> data' # data, failed |-> data' # data /\ disk # "ok",
               raised |-> save_raises(data')]
    /\ UNCHANGED <<today, content, card, calls, disk, session>>

\* progress.increment_stat(stat_name, amount): saved when the name is a stat
IncrementStat(stat_name, amount) ==
    LET stats == get(data, "stats", DefaultStats)
        wrote == stat_name \in DOMAIN stats
    IN  /\ wrote => stats[stat_name] < MaxStat
        /\ data' = increment_stat(data, stat_name, amount)
        /\ file' = IF wrote THEN save(data') ELSE file
        /\ ret' = [op |-> "increment_stat", stat_name |-> stat_name,
                   amount |-> amount,
                   changed |-> data' # data,
                   wrote |-> wrote, failed |-> wrote /\ disk # "ok",
                   raised |-> save_raises(data')]
    /\ UNCHANGED <<today, content, card, calls, disk, session>>

\* progress.reset_all()
ResetAll ==
    /\ data' = default_structure(today)
    /\ file' = save(data')
    /\ ret' = [op |-> "reset_all", changed |-> data' # data,
               wrote |-> TRUE, failed |-> disk # "ok",
               raised |-> save_raises(data')]
    /\ UNCHANGED <<today, content, card, calls, disk, session>>

\* import_from_file(filepath): the store after the call; the dict read
\* replaces the store when open and json.load raise nothing
import_ok(src) == src.exists /\ "text" \notin DOMAIN src.content

import_from_file_drop(d, src) ==
    IF import_ok(src) THEN json_load(src.content) ELSE [k \in {"kana"} |-> d[k]]

import_from_file(d, src) == IF import_ok(src) THEN json_load(src.content) ELSE d

\* progress.import_from_file(filepath), on the file `src` that the user chose
ImportFromFile(src) ==
    /\ data' = import_from_file(data, src)
    /\ file' = IF import_ok(src) THEN save(data') ELSE file
    /\ ret' = [op |-> "import_from_file", src |-> src, result |-> import_ok(src),
               changed |-> data' # data,
               wrote |-> import_ok(src), failed |-> import_ok(src) /\ disk # "ok",
               raised |-> "nothing"]
    /\ UNCHANGED <<today, content, card, calls, disk, session>>

\* The application is started again: ProgressManager() loads the file.
Construct ==
    /\ data' = load(file, today)
    /\ card' = SRSCard
    /\ ret' = [op |-> "load", today |-> today, raised |-> load_raises(file)]
    /\ UNCHANGED <<today, file, content, calls, disk, session>>

\* The environment: the disk fills up or frees, the file's permissions change.
DiskChange(s) ==
    /\ s # disk
    /\ disk' = s
    /\ ret' = [op |-> "disk_change"]
    /\ UNCHANGED <<today, data, file, content, card, calls, session>>

-----------------------------------------------------------------------------
(* The kana test: KanaModule and its handlers *)

PERFECT == 10
GOOD == 5
AGAIN == 1

\* KanaModule(parent, progress, theme): the attributes set by __init__ and the
\* widgets built by _build_ui.  frame is the input area that is packed,
\* mc_buttons the state of the choice buttons, next_btn that of the Next
\* button.
KanaModule(test_type) ==
    [test_type |-> test_type,
     pool |-> <<>>,
     current |-> None,
     score |-> 0,
     asked |-> 0,
     correct_streak |-> 0,
     wrong_attempts |-> 0,
     frame |-> "none",
     mc_buttons |-> "none",
     next_btn |-> "disabled"]

\* The orders in which random.shuffle can leave the items of S.
Shuffles(S) ==
    {p \in [1..Cardinality(S) -> S] : \A i, j \in 1..Cardinality(S) : p[i] = p[j] => i = j}

\* The items of a pool: (char, reading) pairs.  A kana is named in the model
\* by its reading.
kana_items(p) == [i \in DOMAIN p |-> <<p[i], p[i]>>]

\* next_card(): the module after the call
next_card(s) ==
    IF s.pool = <<>> THEN s
    ELSE [s EXCEPT
            !.current = s.pool[Len(s.pool)],
            !.pool = SubSeq(s.pool, 1, Len(s.pool) - 1),
            !.wrong_attempts = 0,
            !.next_btn = "disabled",
            !.frame = IF s.test_type = "typing" THEN "typing" ELSE "mc",
            !.mc_buttons = IF s.test_type = "typing" THEN @ ELSE "normal"]

\* The SRS update of both handlers: get_card, review_card, update_card
srs_update(d, char, quality, now) ==
    update_card(get_card_store(d, "kana", char), "kana", char,
                review_card(get_card(d, "kana", char), quality, now))

\* _handle_correct(char, correct): the store after the call
handle_correct_store(d, s, char, now) ==
    LET streak == s.correct_streak + 1
        d1 == IF streak > d.stats.max_streak
              THEN [d EXCEPT !.stats.max_streak = streak] ELSE d
        d2 == IF streak = PERFECT THEN add_achievement(d1, "perfect_10") ELSE d1
    IN  srs_update(d2, char, GOOD, now)

\* _handle_correct(char, correct): the module after the call
handle_correct(s) ==
    [s EXCEPT !.score = @ + 1, !.correct_streak = @ + 1, !.next_btn = "normal"]

\* _handle_wrong(char, correct): the store and the module after the call
handle_wrong_store(d, char, now) == srs_update(d, char, AGAIN, now)

handle_wrong(s) ==
    [s EXCEPT !.correct_streak = 0, !.wrong_attempts = @ + 1, !.next_btn = "normal"]

\* The part that check_answer and check_mc share: the counters, then the
\* handler of the outcome.
judge_store(d, s, right, now) ==
    LET d1 == increment_stat(increment_stat(d, "total_reviews", 1), "reviews_today", 1)
    IN  IF right THEN handle_correct_store(d1, s, s.current[1], now)
        ELSE handle_wrong_store(d1, s.current[1], now)

judge(s, right) ==
    LET s1 == [s EXCEPT !.asked = @ + 1]
    IN  IF right THEN handle_correct(s1) ELSE handle_wrong(s1)

\* start_test(mode): the pool is the shuffled kana of the mode
StartTest(p) ==
    /\ session' = next_card([session EXCEPT !.pool = kana_items(p), !.score = 0,
                                            !.asked = 0, !.correct_streak = 0])
    /\ ret' = [op |-> "start_test"]
    /\ UNCHANGED <<today, data, file, content, card, calls, disk>>

\* review_due(): the pool is the shuffled due kana; nothing happens when none
\* is due
ReviewDue(p) ==
    /\ session' = IF p = <<>> THEN session
                  ELSE next_card([session EXCEPT !.pool = kana_items(p), !.score = 0,
                                                 !.asked = 0, !.correct_streak = 0])
    /\ ret' = [op |-> "review_due", due |-> get_due_items(data, "kana", today)]
    /\ UNCHANGED <<today, data, file, content, card, calls, disk>>

\* The Next button, which calls next_card when it is enabled.  With an empty
\* pool next_card calls end_test and returns: current and the buttons stay.
NextCard ==
    /\ session.next_btn = "normal"
    /\ session' = next_card(session)
    /\ ret' = [op |-> "next_card", ended |-> session.pool = <<>>]
    /\ UNCHANGED <<today, data, file, content, card, calls, disk>>

\* check_answer(), on Return in the entry or on the Check button, both of
\* which work while the typing frame is packed.  user is the text of the
\* entry after strip().lower().
CheckAnswer(user) ==
    /\ session.frame = "typing"
    /\ session.asked < MaxAsked
    /\ get(get(data, "stats", DefaultStats), "total_reviews", 0) < MaxAsked
    /\ IF session.current = None
       THEN UNCHANGED <<data, file, session>>
       ELSE /\ data' = judge_store(data, session, user = session.current[2], today)
            /\ file' = save(data')
            /\ session' = judge(session, user = session.current[2])
    /\ ret' = [op |-> "check_answer", judged |-> session.current # None,
               char |-> session.current,
               right |-> session.current # None /\ user = session.current[2]]
    /\ UNCHANGED <<today, content, card, calls, disk>>

\* check_mc(choice), on one of the choice buttons while they are enabled
CheckMc(choice) ==
    /\ session.frame = "mc"
    /\ session.mc_buttons = "normal"
    /\ session.asked < MaxAsked
    /\ get(get(data, "stats", DefaultStats), "total_reviews", 0) < MaxAsked
    /\ IF session.current = None
       THEN UNCHANGED <<data, file, session>>
       ELSE /\ data' = judge_store(data, session, choice = session.current[2], today)
            /\ file' = save(data')
            /\ session' = [judge(session, choice = session.current[2])
                              EXCEPT !.mc_buttons = "disabled"]
    /\ ret' = [op |-> "check_mc", judged |-> session.current # None,
               char |-> session.current,
               right |-> session.current # None /\ choice = session.current[2]]
    /\ UNCHANGED <<today, content, card, calls, disk>>

\* JapaneseApp(): the store after the constructor.  ProgressManager() loads
\* the file; settings, stats and achievements are created when absent;
\* 'first_review' is added when total_reviews is 0; HomeModule._build_ui calls
\* update_streak.
app_init(f, now) ==
    LET default == default_structure(now)
        d0 == load(f, now)
        d1 == IF "settings" \in DOMAIN d0 THEN d0
              ELSE setitem(d0, "settings", default.settings)
        d2 == IF "stats" \in DOMAIN d1 THEN d1 ELSE setitem(d1, "stats", DefaultStats)
        d3 == IF "achievements" \in DOMAIN d2 THEN d2 ELSE setitem(d2, "achievements", <<>>)
        d4 == IF get(d3.stats, "total_reviews", 0) = 0
              THEN add_achievement(d3, "first_review") ELSE d3
    IN  update_streak(d4, now)

\* The application is started: JapaneseApp() builds the store and the modules.
\* The store is saved when an achievement was added or the day is new.
StartApp ==
    /\ data' = app_init(file, today)
    /\ file' = IF data' # load(file, today) THEN save(data') ELSE file
    /\ session' = KanaModule(data'.settings.test_type)
    /\ card' = SRSCard
    /\ ret' = [op |-> "start_app", today |-> today,
               loaded |-> load(file, today)]
    /\ UNCHANGED <<today, content, calls, disk>>

-----------------------------------------------------------------------------
(* Specifications *)

QUALITIES == 0..5

\* The item keys of the run of the store: two kana.
SmallContent ==
    [kana |-> {"a", "i"}, vocab |-> {}, grammar |-> {}, kanji |-> {}]

\* A category of five items.
FreshContent ==
    [kana |-> {}, vocab |-> {"neko", "inu", "mizu", "hon", "yama"},
     grammar |-> {}, kanji |-> {}]

\* The store: ProgressManager() with no file yet, on day 0.
InitStore(items) ==
    /\ today = 0
    /\ data = default_structure(0)
    /\ disk = "ok"
    /\ file = NoFile
    /\ content = items
    /\ card = SRSCard
    /\ calls = 0
    /\ session = KanaModule(data.settings.test_type)
    /\ ret = [op |-> "init"]

Init == InitStore(SmallContent)

Next ==
    \/ \E n \in 1..2 : AdvanceDay(n)
    \/ \E c \in CATEGORIES : \E k \in content[c] : GetCard(c, k)
    \/ \E q \in QUALITIES : ReviewCard(q, MaxCalls)
    \/ \E c \in CATEGORIES : \E k \in content[c] : UpdateCard(c, k)
    \/ \E c \in CATEGORIES : GetDueItems(c)

Spec == Init /\ [][Next]_vars

\* The cards of the store on one day: fetched, reviewed and written back.
NextCards ==
    \/ \E c \in CATEGORIES : \E k \in content[c] : GetCard(c, k)
    \/ \E q \in QUALITIES : ReviewCard(q, MaxCalls)
    \/ \E c \in CATEGORIES : \E k \in content[c] : UpdateCard(c, k)

SpecCards == Init /\ [][NextCards]_vars

\* One card, created with the defaults and reviewed again and again.
NextChain == \E q \in QUALITIES : ReviewCard(q, MaxChain)

SpecChain == Init /\ [][NextChain]_vars

\* review_card as a function: one call on each input card, with each quality
\* a caller can pass, the ones outside 0..5 included.
EaseInputs == (MIN_EASE..(MIN_EASE + EaseSpan)) \cup {DEFAULT_EASE}

CardInputs ==
    {[ease |-> e, interval |-> i, repetitions |-> r,
      last_review |-> lr[1], next_review |-> lr[2], wrong_count |-> w] :
        e \in EaseInputs, i \in 1..MaxInterval, r \in 0..MaxReps, w \in 0..MaxWrong,
        lr \in {<<None, None>>, <<strftime(0), strftime(1)>>}}

QualityInputs == -1..6

InitReview ==
    /\ today \in 0..MaxDay
    /\ data = default_structure(today)
    /\ disk = "ok"
    /\ file = NoFile
    /\ content = SmallContent
    /\ card \in CardInputs
    /\ calls = 0
    /\ session = KanaModule(data.settings.test_type)
    /\ ret = [op |-> "init"]

NextReview == \E q \in QualityInputs : ReviewCard(q, 1)

SpecReview == InitReview /\ [][NextReview]_vars

\* A store whose items are fetched and listed but never reviewed, with a
\* category of five items.
NextFresh ==
    \/ \E n \in 1..2 : AdvanceDay(n)
    \/ \E c \in CATEGORIES : \E k \in content[c] : GetCard(c, k)
    \/ \E c \in CATEGORIES : GetDueItems(c)

SpecFresh == InitStore(FreshContent) /\ [][NextFresh]_vars

\* The streak and the counters of a store that an earlier session saved on day
\* `last` with a streak of `streak` and that is loaded on day `today`; the
\* week_streak achievement is held when the streak has reached a week.
LoadedStore(last, streak, held) ==
    [default_structure(last) EXCEPT
        !.streak = streak,
        !.achievements = IF held \/ streak >= WEEK THEN <<"week_streak">> ELSE <<>>]

InitStreak ==
    /\ today \in 0..MaxDay
    /\ \E last \in 0..today, streak \in 0..MaxStreak, held \in BOOLEAN :
          data = LoadedStore(last, streak, held)
    /\ disk = "ok"
    /\ file = save(data)
    /\ content = SmallContent
    /\ card = SRSCard
    /\ calls = 0
    /\ session = KanaModule(data.settings.test_type)
    /\ ret = [op |-> "init"]

NextStreak ==
    \/ \E n \in 1..2 : AdvanceDay(n)
    \/ UpdateStreak
    \/ \E id \in {"first_review", "week_streak"} : AddAchievement(id)
    \/ \E name \in {"total_reviews", "reviews_today", "reviews"} : IncrementStat(name, 1)

SpecStreak == InitStreak /\ [][NextStreak]_vars

\* The store that an earlier session left on day 0: one reviewed kana, changed
\* settings, counted reviews, and the achievements that its streak has earned.
SavedStore(streak) ==
    [streak |-> streak,
     last_date |-> strftime(0),
     achievements |-> IF streak >= WEEK THEN <<"first_review", "week_streak">>
                      ELSE <<"first_review">>,
     settings |-> [theme |-> "Midnight Zen", layout |-> "Desktop", sound |-> FALSE,
                   test_type |-> "multiple_choice", srs_interval |-> 1],
     kana |-> ("a" :> review_card(SRSCard, 5, 0)),
     vocab |-> EmptyDict,
     grammar |-> EmptyDict,
     kanji |-> EmptyDict,
     stats |-> [total_reviews |-> 1, reviews_today |-> 1,
                correct_streak |-> 1, max_streak |-> 1]]

TopKeys == DOMAIN default_structure(0)

Restrict(f, S) == [k \in S |-> f[k]]

\* The documents of an older or partial schema: up to MaxMissing top-level
\* keys are absent, or all of them, or all but kana; settings and stats may
\* hold one key only; and null may stand where a dict or a list is expected.
KeySets ==
    {S \in SUBSET TopKeys : Cardinality(TopKeys \ S) <= MaxMissing}
        \cup {{"kana"}, {}}

Variants(doc) ==
    {[k \in S |-> CASE k = "settings" -> st
                    [] k = "stats" -> sa
                    [] k = "achievements" -> ac
                    [] OTHER -> doc[k]] :
        S \in KeySets,
        st \in {doc.settings, Restrict(doc.settings, {"theme"}), JsonScalar},
        sa \in {doc.stats, Restrict(doc.stats, {"total_reviews"}), JsonScalar},
        ac \in {doc.achievements, JsonNull}}

ObjectDocuments ==
    UNION {Variants(json_dump(SavedStore(n))) : n \in {MaxStreak, MaxStreak + 1}}

FileInputs ==
    {NoFile,
     [exists |-> TRUE, content |-> Unparseable],
     [exists |-> TRUE, content |-> JsonScalar]}
        \cup {[exists |-> TRUE, content |-> doc] : doc \in ObjectDocuments}

\* The application is started on a file of any of these kinds, and started
\* again on later days; each session calls update_streak.
InitLoad ==
    /\ today = 0
    /\ disk \in {"ok", "denied"}
    /\ file \in FileInputs
    /\ data = load(file, today)
    /\ content = SmallContent
    /\ card = SRSCard
    /\ calls = 0
    /\ session = KanaModule(default_structure(today).settings.test_type)
    /\ ret = [op |-> "load", today |-> today, raised |-> load_raises(file)]

NextLoad ==
    \/ \E n \in 1..2 : AdvanceDay(n)
    \/ Construct
    \/ UpdateStreak

SpecLoad == InitLoad /\ [][NextLoad]_vars

\* The store and its file: every operation of the store on one kana, with
\* writes that fail, files imported from elsewhere, and restarts.
OneKana == [kana |-> {"a"}, vocab |-> {}, grammar |-> {}, kanji |-> {}]

ImportInputs ==
    {NoFile,
     [exists |-> TRUE, content |-> Unparseable],
     [exists |-> TRUE, content |-> json_dump(SavedStore(1))],
     [exists |-> TRUE, content |-> Restrict(json_dump(SavedStore(1)), {"kana"})]}

\* Writes that fail: every operation of the store that saves, on a disk that
\* fills up and frees and a file whose permissions change.
NextWrite ==
    \/ AdvanceDay(1)
    \/ \E s \in {"ok", "denied", "full"} : DiskChange(s)
    \/ \E k \in content.kana : GetCard("kana", k)
    \/ ReviewCard(5, 1)
    \/ \E k \in content.kana : UpdateCard("kana", k)
    \/ UpdateStreak
    \/ AddAchievement("first_review")
    \/ IncrementStat("total_reviews", 1)
    \/ ResetAll

SpecWrite == InitStore(OneKana) /\ [][NextWrite]_vars

\* A card written while writes fail, and read back.
NextCardWrite ==
    \/ AdvanceDay(1)
    \/ \E s \in {"ok", "denied", "full"} : DiskChange(s)
    \/ \E k \in content.kana : GetCard("kana", k)
    \/ \E q \in {1, 5} : ReviewCard(q, MaxCalls)
    \/ \E k \in content.kana : UpdateCard("kana", k)
    \/ GetDueItems("kana")

SpecCardWrite == InitStore(OneKana) /\ [][NextCardWrite]_vars

\* Save and load: the store is changed, replaced by an imported file and
\* reset, and the application is started again on the file it wrote.
NextRoundTrip ==
    \/ AdvanceDay(1)
    \/ \E k \in content.kana : GetCard("kana", k)
    \/ \E q \in {1, 5} : ReviewCard(q, MaxCalls)
    \/ \E k \in content.kana : UpdateCard("kana", k)
    \/ UpdateStreak
    \/ AddAchievement("first_review")
    \/ IncrementStat("total_reviews", 1)
    \/ ResetAll
    \/ \E src \in ImportInputs : ImportFromFile(src)
    \/ Construct

SpecRoundTrip == InitStore(OneKana) /\ [][NextRoundTrip]_vars

\* Imports: files that are missing, unreadable, whole and partial are
\* imported into a store that reviews, streak updates and achievements have
\* changed.
NextImport ==
    \/ AdvanceDay(1)
    \/ \E k \in content.kana : GetCard("kana", k)
    \/ ReviewCard(5, 1)
    \/ \E k \in content.kana : UpdateCard("kana", k)
    \/ UpdateStreak
    \/ AddAchievement("first_review")
    \/ \E src \in ImportInputs : ImportFromFile(src)

SpecImport == InitStore(OneKana) /\ [][NextImport]_vars

\* Counters: every counter of stats, and a name that is none of them, is
\* incremented by the amounts 1..MaxAmount, on stores that were loaded,
\* reset and imported.
STAT_NAMES == {"total_reviews", "reviews_today", "correct_streak", "max_streak"}

NextStats ==
    \/ \E name \in STAT_NAMES \cup {"reviews"}, amount \in 1..MaxAmount :
          IncrementStat(name, amount)
    \/ ResetAll
    \/ \E src \in ImportInputs : ImportFromFile(src)

SpecStats == InitStore(OneKana) /\ [][NextStats]_vars

\* Resets: a store with a running streak is reset, and update_streak is
\* called on the day of the reset and on later days.  Every store starts with
\* a streak of 1 or more, so the streak is 0 only in a store that reset_all
\* left and that no update_streak of a later day has changed since.
InitReset ==
    /\ today \in 0..MaxDay
    /\ \E last \in 0..today, streak \in 1..MaxStreak :
          data = LoadedStore(last, streak, FALSE)
    /\ disk = "ok"
    /\ file = save(data)
    /\ content = SmallContent
    /\ card = SRSCard
    /\ calls = 0
    /\ session = KanaModule(data.settings.test_type)
    /\ ret = [op |-> "init"]

NextReset ==
    \/ \E n \in 1..2 : AdvanceDay(n)
    \/ UpdateStreak
    \/ ResetAll
    \/ IncrementStat("reviews_today", 1)

SpecReset == InitReset /\ [][NextReset]_vars

\* A kana test in typing or multiple-choice mode: tests are started, answers
\* given and cards passed, over several days.
ANSWERS == {"a", "i", "x"}

InitTest ==
    /\ \E test_type \in {"typing", "multiple_choice"} :
          data = [default_structure(0) EXCEPT !.settings.test_type = test_type]
    /\ today = 0
    /\ disk = "ok"
    /\ file = save(data)
    /\ content = SmallContent
    /\ card = SRSCard
    /\ calls = 0
    /\ session = KanaModule(data.settings.test_type)
    /\ ret = [op |-> "init"]

NextTest ==
    \/ AdvanceDay(1)
    \/ \E p \in Shuffles(content.kana) : StartTest(p)
    \/ \E p \in Shuffles(get_due_items(data, "kana", today)) : ReviewDue(p)
    \/ NextCard
    \/ \E user \in ANSWERS : CheckAnswer(user)
    \/ \E choice \in ANSWERS : CheckMc(choice)

SpecTest == InitTest /\ [][NextTest]_vars

\* The application: it is started and started again, tests are taken in it
\* and the store is reset from its menu.
InitApp ==
    /\ \E test_type \in {"typing", "multiple_choice"} :
          data = [default_structure(0) EXCEPT !.settings.test_type = test_type]
    /\ today = 0
    /\ disk = "ok"
    /\ file = save(data)
    /\ content = OneKana
    /\ card = SRSCard
    /\ calls = 0
    /\ session = KanaModule(data.settings.test_type)
    /\ ret = [op |-> "init"]

NextApp ==
    \/ AdvanceDay(1)
    \/ StartApp
    \/ \E p \in Shuffles(content.kana) : StartTest(p)
    \/ NextCard
    \/ \E user \in ANSWERS : CheckAnswer(user)
    \/ \E choice \in ANSWERS : CheckMc(choice)
    \/ ResetAll

SpecApp == InitApp /\ [][NextApp]_vars

\* Due dates: a kana is fetched, reviewed and written back, and the days pass
\* until its next review is reached.
NextDue ==
    \/ \E n \in {1, SECOND_INTERVAL - 1} : PassDays(n, MaxDueDay)
    \/ \E k \in content.kana : GetCard("kana", k)
    \/ \E q \in QUALITIES : ReviewCard(q, MaxCalls)
    \/ \E k \in content.kana : UpdateCard("kana", k)
    \/ GetDueItems("kana")

SpecDue == InitStore(OneKana) /\ [][NextDue]_vars

\* Growth: one kana is fetched, reviewed with every quality and written back,
\* MaxGrow reviews in all, so that stored cards reach repetitions 3 and more.
NextGrow ==
    \/ \E k \in content.kana : GetCard("kana", k)
    \/ \E q \in QUALITIES : ReviewCard(q, MaxGrow)
    \/ \E k \in content.kana : UpdateCard("kana", k)

SpecGrow == InitStore(OneKana) /\ [][NextGrow]_vars

-----------------------------------------------------------------------------
(* The claims *)

Reviewed == ret.op = "review_card"

\* C1: a review with quality 0..2 returns repetitions 0, interval 1, the
\* wrong_count it was given plus one, and the ease it was given.
C1_FailureResets ==
    (Reviewed /\ ret.quality \in 0..2) =>
        /\ card = ret.after
        /\ ret.after.repetitions = 0
        /\ ret.after.interval = 1
        /\ ret.after.wrong_count = ret.before.wrong_count + 1
        /\ ret.after.ease = ret.before.ease

C1_Witness ==
    /\ Reviewed /\ ret.quality = 0
    /\ ret.before.repetitions = 3 /\ ret.before.interval = 7
    /\ ret.before.wrong_count = 1 /\ ret.before.ease = MIN_EASE + 5
    /\ ret.after.wrong_count = 2

\* C2: a review with quality 3..5 adds one to repetitions and sets the interval
\* from the repetitions, interval and ease held before the call: 1, then 6,
\* then floor(interval * ease).  Three successes in a row on a card created
\* with the defaults give the intervals 1, 6, floor(6 * ease) and the
\* repetitions 1, 2, 3.
C2_SuccessInterval ==
    (Reviewed /\ ret.quality \in 3..5) =>
        /\ ret.after.repetitions = ret.before.repetitions + 1
        /\ ret.before.repetitions = 0 => ret.after.interval = 1
        /\ ret.before.repetitions = 1 => ret.after.interval = 6
        /\ ret.before.repetitions >= 2 =>
              /\ 100 * ret.after.interval <= ret.before.interval * ret.before.ease
              /\ ret.before.interval * ret.before.ease < 100 * (ret.after.interval + 1)
        /\ (ret.after.wrong_count = 0 /\ calls = 1) =>
              ret.after.repetitions = 1 /\ ret.after.interval = 1
        /\ (ret.after.wrong_count = 0 /\ calls = 2) =>
              ret.after.repetitions = 2 /\ ret.after.interval = 6
        /\ (ret.after.wrong_count = 0 /\ calls = 3) =>
              /\ ret.after.repetitions = 3
              /\ 100 * ret.after.interval <= 6 * ret.before.ease
              /\ 6 * ret.before.ease < 100 * (ret.after.interval + 1)

\* three successes with quality 3: the ease before the third is 2.22, 6 * 2.22 = 13.32
C2_Witness ==
    /\ Reviewed /\ ret.quality = 3 /\ calls = 3
    /\ ret.after.wrong_count = 0 /\ ret.after.repetitions = 3
    /\ ret.before.ease = 222 /\ ret.after.interval = 13

\* C3: a review with quality q in 3..5 changes the ease by +0.10 (q = 5),
\* 0 (q = 4) or -0.14 (q = 3) and never takes it below 1.3.
C3_EaseUpdate ==
    (Reviewed /\ ret.quality \in 3..5) =>
        LET delta == CASE ret.quality = 5 -> 10
                       [] ret.quality = 4 -> 0
                       [] ret.quality = 3 -> -14
        IN  /\ ret.before.ease + delta >= 130 => ret.after.ease = ret.before.ease + delta
            /\ ret.before.ease + delta < 130 => ret.after.ease = 130

C3_Witness ==
    /\ Reviewed /\ ret.quality = 3
    /\ ret.before.ease = 135 /\ ret.after.ease = 130

\* C4: the ease of a card created with the defaults is at least 1.3 after
\* every review of every sequence of reviews with qualities 0..5.
C4_EaseFloor ==
    /\ card.ease >= 130
    /\ Reviewed => ret.after.ease >= 130

\* nine reviews with quality 3: 2.50 - 8 * 0.14 = 1.38, and the ninth stops at 1.3
C4_Witness ==
    /\ Reviewed /\ ret.quality = 3 /\ calls = 9
    /\ ret.before.ease = 138 /\ card.ease = 130

\* C5: the interval review_card returns is at least 1, for every quality 0..5.
C5_IntervalPositive ==
    (Reviewed /\ ret.quality \in 0..5) => ret.after.interval >= 1

\* the smallest product: floor(1 * 1.3)
C5_Witness ==
    /\ Reviewed /\ ret.quality = 3
    /\ ret.before.repetitions = 2 /\ ret.before.interval = 1 /\ ret.before.ease = 130
    /\ ret.after.interval = 1

\* C6: in both branches last_review is the day of the call and next_review is
\* that day plus the interval just computed.
C6_ReviewDates ==
    (Reviewed /\ ret.quality \in 0..5) =>
        /\ ret.after.last_review = strftime(ret.today)
        /\ ret.after.next_review = strftime(ret.today + ret.after.interval)

\* a failure on 2024-12-31 of a card that had interval 7: next on 2025-01-01
C6_Witness ==
    /\ Reviewed /\ ret.quality = 2 /\ ret.today = 1
    /\ ret.before.interval = 7
    /\ ret.after.last_review = <<2024, 12, 31>>
    /\ ret.after.next_review = <<2025, 1, 1>>

\* C7: a review with a quality outside 0..5 fails with InvalidQuality and
\* leaves every field of the card as it was.
C7_InvalidQualityRejected ==
    (Reviewed /\ ret.quality \notin 0..5) =>
        /\ ret.raised = "InvalidQuality"
        /\ ret.after = ret.before

\* C8: get_due_items returns exactly the stored keys of the category whose
\* next_review is null or is today or earlier; a key due tomorrow is left out.
C8_DueItems ==
    ret.op = "get_due_items" =>
        /\ ret.due \subseteq DOMAIN data[ret.category]
        /\ \A key \in DOMAIN data[ret.category] :
              LET next == data[ret.category][key].next_review
              IN  /\ next = None => key \in ret.due
                  /\ next = strftime(today) => key \in ret.due
                  /\ (\E n \in 1..today : next = strftime(today - n)) => key \in ret.due
                  /\ next = strftime(today + 1) => key \notin ret.due
                  /\ key \in ret.due =>
                        next = None \/ \E n \in 0..today : next = strftime(today - n)

\* on 2025-01-01: "a" was due on 2024-12-31, "i" is due on 2025-01-02
C8_Witness ==
    /\ ret.op = "get_due_items" /\ ret.category = "kana" /\ today = 2
    /\ DOMAIN data.kana = {"a", "i"}
    /\ data.kana["a"].next_review = <<2024, 12, 31>>
    /\ data.kana["i"].next_review = <<2025, 1, 2>>
    /\ ret.due = {"a"}

NeverReviewed(category, key) ==
    key \in DOMAIN data[category] => data[category][key].last_review = None

\* C9, as stated: on a store that holds nothing, get_due_items('vocab') returns
\* the five never-reviewed items of the category.
C9_FreshItemsDue ==
    (/\ ret.op = "get_due_items" /\ ret.category = "vocab"
     /\ \A c \in CATEGORIES : DOMAIN data[c] = {}
     /\ Cardinality(content.vocab) >= 5) =>
        ret.due = content.vocab

\* C9, amended: once get_card has stored the five never-reviewed items,
\* get_due_items('vocab') returns the five keys; an item that was never
\* fetched is not stored and is not returned.
C9_StoredFreshItemsDue ==
    (/\ ret.op = "get_due_items" /\ ret.category = "vocab"
     /\ \A key \in content.vocab : NeverReviewed("vocab", key)) =>
        ret.due = content.vocab \cap DOMAIN data.vocab

C9_Witness ==
    /\ ret.op = "get_due_items" /\ ret.category = "vocab" /\ today = 2
    /\ DOMAIN data.vocab = content.vocab
    /\ \A key \in content.vocab : data.vocab[key] = SRSCard
    /\ Cardinality(ret.due) = 5

\* C10: update_streak returns the streak unchanged when last_date is today,
\* the streak plus one when last_date is the day before, and 1 otherwise; the
\* store then holds that streak and today's date, so a second call on the
\* same day returns the same value.
C10_StreakRule ==
    ret.op = "update_streak" =>
        /\ ret.last_date = strftime(ret.today) => ret.result = ret.streak
        /\ ret.last_date = strftime(ret.today - 1) => ret.result = ret.streak + 1
        /\ (ret.last_date # strftime(ret.today) /\ ret.last_date # strftime(ret.today - 1)) =>
              ret.result = 1
        /\ data.streak = ret.result
        /\ data.last_date = strftime(today)

\* the call of 2025-01-01 on a store last used on 2024-12-31
C10_Witness ==
    /\ ret.op = "update_streak" /\ ret.today = 2
    /\ ret.last_date = <<2024, 12, 31>>
    /\ ret.streak = 3 /\ ret.result = 4

\* C11: update_streak sets stats.reviews_today to 0 and last_date to today
\* exactly when last_date differs from today (the first call of a new day); a
\* call on the day of last_date leaves both as they were, and no other
\* operation lowers reviews_today or moves last_date, so the counter is reset
\* once per day change.
C11_DailyReset ==
    [][/\ ret'.op = "update_streak" =>
             IF data.last_date # strftime(today)
             THEN /\ data'.stats.reviews_today = 0
                  /\ data'.last_date = strftime(today)
             ELSE /\ data'.stats.reviews_today = data.stats.reviews_today
                  /\ data'.last_date = data.last_date
       /\ (\/ data'.stats.reviews_today < data.stats.reviews_today
           \/ data'.last_date # data.last_date) =>
             /\ ret'.op = "update_streak"
             /\ data.last_date # strftime(today)
             /\ data'.last_date = strftime(today)]_vars

C11_Witness ==
    /\ ret.op = "update_streak"
    /\ ret.last_date # strftime(ret.today)
    /\ ret.reviews_today = 1
    /\ data.stats.reviews_today = 0
    /\ data.last_date = strftime(ret.today)

\* The other fields of the store are as they were before the step.
AggregatesUnchanged ==
    /\ data'.streak = data.streak
    /\ data'.last_date = data.last_date
    /\ data'.achievements = data.achievements
    /\ data'.settings = data.settings
    /\ data'.stats = data.stats

\* Every stored card other than (category, key) is as it was before the step,
\* and no other key has appeared or gone.
OtherCardsUnchanged(category, key) ==
    \A c \in CATEGORIES :
        /\ DOMAIN data'[c] \ {key} = DOMAIN data[c] \ {key}
        /\ c # category => DOMAIN data'[c] = DOMAIN data[c]
        /\ \A k \in DOMAIN data[c] :
              (c # category \/ k # key) => data'[c][k] = data[c][k]

\* C13: get_card on a key not yet stored adds one entry, with ease 2.5,
\* interval 1, repetitions 0, no review dates and wrong_count 0, and returns
\* it; get_card on a stored key (a default stored by an earlier get_card
\* included) returns the stored card and leaves the store as it was.
C13_GetCard ==
    [][ret'.op = "get_card" =>
         LET c == ret'.category
             k == ret'.key
         IN  IF k \notin DOMAIN data[c]
             THEN /\ DOMAIN data'[c] = DOMAIN data[c] \cup {k}
                  /\ Cardinality(DOMAIN data'[c]) = Cardinality(DOMAIN data[c]) + 1
                  /\ data'[c][k] = [ease |-> 250, interval |-> 1, repetitions |-> 0,
                                    last_review |-> None, next_review |-> None,
                                    wrong_count |-> 0]
                  /\ card' = data'[c][k]
                  /\ OtherCardsUnchanged(c, k)
                  /\ AggregatesUnchanged
             ELSE /\ data' = data
                  /\ card' = data[c][k]]_vars

C13_Witness ==
    /\ ret.op = "get_card" /\ ret.key = "i" /\ ~ret.stored
    /\ DOMAIN data.kana = {"a", "i"}
    /\ data.kana["a"].repetitions = 1
    /\ data.kana["i"] = SRSCard
    /\ card = SRSCard

\* C14: update_card(category, key, card) stores the card under that key and
\* leaves every other card of every category, the streak, last_date, the
\* achievements, the settings and the stats as they were.
C14_UpdateCardFrame ==
    [][ret'.op = "update_card" =>
         /\ ret'.key \in DOMAIN data'[ret'.category]
         /\ data'[ret'.category][ret'.key] = card
         /\ OtherCardsUnchanged(ret'.category, ret'.key)
         /\ AggregatesUnchanged]_vars

C14_Witness ==
    /\ ret.op = "update_card" /\ ret.category = "kana" /\ ret.key = "a"
    /\ DOMAIN data.kana = {"a", "i"}
    /\ data.kana["a"] = card
    /\ data.kana["a"].repetitions = 2
    /\ data.kana["i"].repetitions = 1

UpdatedStreak == ret.op = "update_streak"

\* C12 (as stated): whenever update_streak returns a streak of 7 or more,
\* week_streak is among the achievements when the call returns.
C12_WeekStreakHeld ==
    (UpdatedStreak /\ ret.result >= 7) => Held(data.achievements, "week_streak")

\* C12 (amended): whenever a call of update_streak on a day other than
\* last_date returns a streak of 7 or more, week_streak is among the
\* achievements when the call returns; a call on the day of last_date returns
\* the stored streak and leaves the achievements as they were.
C12_WeekStreakOnNewDay ==
    UpdatedStreak =>
        IF ret.last_date # strftime(ret.today)
        THEN ret.result >= 7 => Held(data.achievements, "week_streak")
        ELSE /\ ret.result = ret.streak
             /\ data.achievements = ret.achievements

C12_Witness ==
    /\ UpdatedStreak
    /\ ret.last_date # strftime(ret.today)
    /\ ret.streak = 6 /\ ret.result = 7
    /\ ~Held(ret.achievements, "week_streak")
    /\ Held(data.achievements, "week_streak")

Loaded == ret.op = "load"

\* The file holds an object whose present values have the types of the
\* schema, and the file can be read.
ObjectOnFile ==
    /\ file.exists /\ disk # "denied"
    /\ "text" \notin DOMAIN file.content
    /\ "scalar" \notin DOMAIN file.content
    /\ \A k \in DOMAIN file.content \cap (CATEGORIES \cup {"settings", "stats"}) :
          "scalar" \notin DOMAIN file.content[k]
    /\ "achievements" \in DOMAIN file.content => file.content.achievements # JsonNull

\* The nine keys of the schema and the defaults of the day of the load.
SchemaKeys ==
    {"streak", "last_date", "achievements", "settings", "stats",
     "kana", "vocab", "grammar", "kanji"}

Defaults ==
    [streak |-> 0,
     last_date |-> strftime(ret.today),
     achievements |-> <<>>,
     settings |-> [theme |-> "Sakura Bliss", layout |-> "Desktop", sound |-> TRUE,
                   test_type |-> "typing", srs_interval |-> 1],
     kana |-> <<>>, vocab |-> <<>>, grammar |-> <<>>, kanji |-> <<>>,
     stats |-> [total_reviews |-> 0, reviews_today |-> 0,
                correct_streak |-> 0, max_streak |-> 0]]

\* C19: loading an object that lacks top-level keys, or keys of settings or
\* stats, gives a store with every key of the schema: each absent key has its
\* default (an absent category is empty), each present key has the value read
\* from the file, and inside settings and stats each absent key has its
\* default and each present key its value.  A file with no stats key loads
\* with the default stats and the other keys as read.
C19_MigrationFills ==
    (Loaded /\ ObjectOnFile) =>
        LET read == json_load(file.content)
        IN  /\ DOMAIN data = SchemaKeys
            /\ \A k \in SchemaKeys \ DOMAIN read : data[k] = Defaults[k]
            /\ \A k \in DOMAIN read \ {"settings", "stats"} : data[k] = read[k]
            /\ \A n \in DOMAIN read \cap {"settings", "stats"} :
                  /\ DOMAIN data[n] = DOMAIN Defaults[n]
                  /\ \A x \in DOMAIN Defaults[n] \ DOMAIN read[n] :
                        data[n][x] = Defaults[n][x]
                  /\ \A x \in DOMAIN read[n] : data[n][x] = read[n][x]

C19_Witness ==
    /\ Loaded /\ ObjectOnFile /\ ret.today = 1
    /\ DOMAIN file.content = SchemaKeys \ {"stats", "last_date"}
    /\ DOMAIN file.content.settings = {"theme"}
    /\ data.stats.total_reviews = 0
    /\ data.last_date = strftime(1)
    /\ data.settings.theme = "Midnight Zen"
    /\ data.settings.sound
    /\ data.kana["a"].repetitions = 1
    /\ data.streak = 6

\* C20: constructing the store when the file is absent, cannot be opened,
\* is not JSON or holds a JSON value that is no object raises nothing and
\* gives the default store: streak 0, no achievements, the default settings,
\* zero stats and four empty categories.
C20_LoadFallsBack ==
    (/\ Loaded
     /\ \/ ~file.exists
        \/ disk = "denied"
        \/ "text" \in DOMAIN file.content
        \/ "scalar" \in DOMAIN file.content) =>
        /\ ret.raised = "nothing"
        /\ data = Defaults

C20_Witness ==
    /\ Loaded /\ ret.today = 2
    /\ file = [exists |-> TRUE, content |-> Unparseable]
    /\ disk = "ok"
    /\ data.streak = 0 /\ data.achievements = <<>>
    /\ data.last_date = strftime(2)

\* The operations of the store that can change it.
StoreOps ==
    {"get_card", "update_card", "update_streak", "add_achievement",
     "increment_stat", "reset_all"}

\* C15: when an operation of the store has changed the store and returned,
\* with the file writable, the file holds the whole store as it is in memory.
C15_ChangesPersisted ==
    (ret.op \in StoreOps /\ ret.changed /\ disk = "ok") =>
        /\ file.exists
        /\ file.content = json_dump(data)

\* C16: when the write fails during update_card, the store in memory holds
\* the card that was passed: get_card returns it, leaving the store as it
\* is, and get_due_items lists the key by the next_review of that card.
C16_MemoryKeepsUpdate ==
    (ret.op = "update_card" /\ ret.failed) =>
        /\ ret.key \in DOMAIN data[ret.category]
        /\ data[ret.category][ret.key] = card
        /\ get_card(data, ret.category, ret.key) = card
        /\ get_card_store(data, ret.category, ret.key) = data
        /\ ret.key \in get_due_items(data, ret.category, today) <=>
              (card.next_review = None \/ StrLeq(card.next_review, strftime(today)))

C16_Witness ==
    /\ ret.op = "update_card" /\ ret.failed /\ ret.key = "a"
    /\ disk = "full"
    /\ file.content = Unparseable
    /\ card.repetitions = 1
    /\ data.kana["a"] = card
    /\ "a" \notin get_due_items(data, "kana", today)

\* C17: when the write fails during update_card, update_streak,
\* add_achievement, increment_stat or reset_all, the call raises an exception
\* to its caller.
C17_FailureReported ==
    (ret.op \in StoreOps /\ ret.failed) => ret.raised # "nothing"

\* C18: when the file holds what save wrote for the store in memory, loading
\* it gives a store equal to the one in memory.
C18_RoundTrip ==
    [][(/\ ret'.op = "load"
        /\ file.exists
        /\ file.content = json_dump(data)) => data' = data]_vars

\* The last call was import_from_file on a file that holds a kana category
\* and nothing else.
ImportedKanaOnly ==
    /\ ret.op = "import_from_file"
    /\ ret.src.exists
    /\ DOMAIN ret.src.content = {"kana"}

\* C21: after the import of a file that holds only a kana category, the store
\* has the default settings, the default stats, no achievements, and the kana
\* entries of the file.
C21_PartialImport ==
    ImportedKanaOnly =>
        /\ {"settings", "stats", "achievements", "kana"} \subseteq DOMAIN data
        /\ data.settings = default_structure(today).settings
        /\ data.stats = default_structure(today).stats
        /\ data.achievements = <<>>
        /\ data.kana = json_load(ret.src.content).kana

\* C22: when the file chosen for import does not exist or does not parse,
\* import_from_file returns False, and the store in memory and the progress
\* file are as they were before the call.
C22_FailedImport ==
    [][(/\ ret'.op = "import_from_file"
        /\ (~ret'.src.exists \/ "text" \in DOMAIN ret'.src.content)) =>
            /\ ~ret'.result
            /\ data' = data
            /\ file' = file]_vars

C22_Witness ==
    /\ ret.op = "import_from_file" /\ ~ret.result
    /\ ret.src.exists /\ ret.src.content = Unparseable
    /\ DOMAIN data = SchemaKeys
    /\ data.streak = 1 /\ data.achievements = <<"first_review">>
    /\ "a" \in DOMAIN data.kana
    /\ file.exists /\ file.content = json_dump(data)

\* No id is listed twice in the achievements of the store.
NoDuplicates ==
    \A i, j \in 1..Len(data.achievements) :
        data.achievements[i] = data.achievements[j] => i = j

\* C23: add_achievement(id) returns True exactly when the id was not held
\* before the call and False when it was; no id is ever listed twice; and a
\* call that returns False leaves the store and the file as they were.
C23_AddAchievement ==
    /\ []NoDuplicates
    /\ [][ret'.op = "add_achievement" =>
            /\ ret'.result = ~Held(data.achievements, ret'.id)
            /\ ret'.result => Held(data'.achievements, ret'.id)
            /\ ~ret'.result => (data' = data /\ file' = file)]_vars

C23_Witness ==
    /\ ret.op = "add_achievement" /\ ret.id = "week_streak" /\ ~ret.result
    /\ data.achievements = <<"week_streak", "first_review">>
    /\ file.content = json_dump(data)

\* C24: increment_stat(name, amount) with a name that is not a key of stats
\* raises nothing and leaves the store and the file as they were; with a name
\* that is a key of stats it adds amount to that counter, leaves the other
\* counters and the rest of the store as they were, and writes the store to
\* the file.
C24_IncrementStatFrame ==
    [][ret'.op = "increment_stat" =>
        LET stats == get(data, "stats", DefaultStats)
            name == ret'.stat_name
        IN  IF name \in DOMAIN stats
            THEN /\ data'.stats = [stats EXCEPT ![name] = @ + ret'.amount]
                 /\ \A k \in DOMAIN data \ {"stats"} :
                        k \in DOMAIN data' /\ data'[k] = data[k]
                 /\ file'.exists /\ file'.content = json_dump(data')
            ELSE /\ ret'.raised = "nothing"
                 /\ data' = data
                 /\ file' = file]_vars

\* A step in which an answer is checked and judged.
Judging ==
    /\ ret'.op \in {"check_answer", "check_mc"}
    /\ ret'.judged

\* C28: in a kana test, typing or multiple choice, a card is judged at most
\* once between two calls of next_card, and not again when the pool is
\* exhausted: an answer is judged only while the Next button is still
\* disabled, that is when the card shown has not been judged yet; so each
\* card shown gets at most one get_card, review_card, update_card sequence
\* and adds at most 1 to total_reviews and to reviews_today.
C28_JudgedOnce ==
    [][Judging => session.next_btn = "disabled"]_vars

\* C25: after every update of the stats, by increment_stat on any name or by
\* the handling of a correct answer, max_streak is at least correct_streak.
C25_BestStreak ==
    ret.op \in {"increment_stat", "check_answer", "check_mc"} =>
        data.stats.max_streak >= data.stats.correct_streak

\* update_streak is called on a store that reset_all left, before any
\* update_streak of a later day.
StreakAfterReset ==
    /\ ret'.op = "update_streak"
    /\ data.streak = 0

\* C26 as stated: the first update_streak after reset_all sets the streak to 1.
C26_ResetThenOne ==
    [][StreakAfterReset => (data'.streak = 1 /\ ret'.result = 1)]_vars

\* C26: after reset_all, update_streak called on the day of the reset returns
\* 0 and leaves the store and the file as they are; the first call on a later
\* day, one day after the reset or more, sets the streak to 1, returns 1 and
\* sets last_date to that day.
C26_ResetThenOneOnLaterDay ==
    [][StreakAfterReset =>
        IF data.last_date = strftime(today)
        THEN ret'.result = 0 /\ data' = data /\ file' = file
        ELSE /\ ret'.result = 1 /\ data'.streak = 1
             /\ data'.last_date = strftime(today)
             /\ file'.content = json_dump(data')]_vars

C26_Witness ==
    /\ ret.op = "update_streak"
    /\ ret.streak = 0 /\ ret.last_date = strftime(ret.today - 2)
    /\ ret.result = 1
    /\ data.streak = 1 /\ data.last_date = strftime(today)

\* C27: in every state, 'first_review' is among the achievements only if
\* total_reviews is 1 or more.
C27_FirstReviewEarned ==
    Held(data.achievements, "first_review") => data.stats.total_reviews >= 1

\* C29: a stored item that was last reviewed on day D, with any quality 0..5,
\* is not returned by get_due_items on day D and is returned on every day
\* from D plus its interval on, until it is reviewed again; an item whose
\* last review failed is returned from day D + 1 on.
C29_DueAfterInterval ==
    \A k \in DOMAIN data.kana : \A D \in 0..today :
        LET c == data.kana[k]
            due == get_due_items(data, "kana", today)
        IN  c.last_review = strftime(D) =>
                /\ today = D => k \notin due
                /\ today >= D + c.interval => k \in due
                /\ (c.repetitions = 0 /\ today >= D + 1) => k \in due

C29_Witness ==
    /\ ret.op = "get_due_items" /\ ret.due = {"a"}
    /\ data.kana["a"].last_review = strftime(1)
    /\ data.kana["a"].repetitions = 2
    /\ data.kana["a"].interval = SECOND_INTERVAL
    /\ today = 1 + SECOND_INTERVAL

\* The intervals of the stored cards follow their repetitions.
StoredIntervals ==
    \A c \in CATEGORIES : \A k \in DOMAIN data[c] :
        LET stored == data[c][k]
        IN  /\ stored.repetitions \in {0, 1} => stored.interval = 1
            /\ stored.repetitions = 2 => stored.interval = SECOND_INTERVAL
            /\ stored.repetitions >= 3 => stored.interval >= SECOND_INTERVAL + 1

\* C30: in every store reached from the default one by get_card, review_card
\* with a quality 0..5 and update_card, a stored card with repetitions 0 or 1
\* has interval 1, one with repetitions 2 has interval 6 and one with
\* repetitions 3 or more has an interval of 7 or more; and a successful
\* review of a card that has succeeded before returns a larger interval.
C30_IntervalGrowth ==
    /\ []StoredIntervals
    /\ [][(/\ ret'.op = "review_card"
           /\ ret'.quality >= PASS_QUALITY
           /\ ret'.before.repetitions >= 1) =>
              ret'.after.interval > ret'.before.interval]_vars

C30_Witness ==
    /\ ret.op = "update_card"
    /\ "a" \in DOMAIN data.kana
    /\ data.kana["a"].repetitions = 4
    /\ data.kana["a"].interval > SECOND_INTERVAL + 1
    /\ data.kana["a"].ease < DEFAULT_EASE

====
